---- MODULE Spec2Model ----
(***************************************************************************)
(* Model of yckao/gta: the GCP provider (Grant, Revoke,                    *)
(* ListTemporaryBindings, CleanTemporaryBindings) over a remote IAM policy *)
(* that is fetched and replaced wholesale, and the grant command that      *)
(* grants, waits for a signal and revokes.                                 *)
(*                                                                         *)
(* Strings are sequences of tokens, so that strings.HasPrefix and          *)
(* strings.TrimPrefix are prefix tests on sequences: "roles/viewer" is     *)
(* <<"roles/", "viewer">>, "user:alice" is <<"user:", "alice">>, the empty *)
(* string is << >>.  Go slices are 0-based; the sequences here are 1-based.*)
(***************************************************************************)
EXTENDS Integers, Sequences, FiniteSets, TLC

VARIABLES
    remote,        \* the project's IAM policy held by the remote API
    grantedRoles,  \* GCPProvider.grantedRoles
    dryRun,        \* GCPProvider.dryRun
    ret,           \* what the last call did: arguments, result, log, remote calls
    opts,          \* the GCPOptions runGrant built from the command line
    pc             \* position of runGrant (grant command)

vars == <<remote, grantedRoles, dryRun, ret, opts, pc>>

----------------------------------------------------------------------------
\* Bounds of the model

\* entries of grantedRoles
MaxGranted == 2
\* clock ticks (stand-ins for nanoseconds) per second
TicksPerSecond == 2

----------------------------------------------------------------------------
\* Constants of the provider

gcpBindingTitlePrefix == <<"gta_temporary_access">>
policyVersion == 3
rolePrefix == <<"roles/">>

\* strings.HasPrefix
HasPrefix(s, p) == Len(s) >= Len(p) /\ SubSeq(s, 1, Len(p)) = p

\* strings.TrimPrefix
TrimPrefix(s, p) == IF HasPrefix(s, p) THEN SubSeq(s, Len(p) + 1, Len(s)) ELSE s

\* a nil *resourcemanager.Expr
NilCondition ==
    [nil |-> TRUE, title |-> << >>, description |-> << >>, expression |-> << >>]

\* time.Time.Format(time.RFC3339): whole seconds, the sub-second part is dropped
FormatRFC3339(t) == ToString(t \div TicksPerSecond)

\* formatRole ensures the role has the proper prefix
formatRole(role) == IF HasPrefix(role, rolePrefix) THEN role ELSE rolePrefix \o role

\* formatMember formats a user email into a GCP member string
formatMember(email) == <<"user:">> \o email

\* getIAMPolicy, given the remote's answer: the version is forced to policyVersion
getIAMPolicyKeepVersion(answer) == answer

getIAMPolicy(answer) == [answer EXCEPT !.version = policyVersion]

\* a binding created without a condition
createBindingBare(role, member, ttl, now) ==
    [role |-> role, members |-> <<member>>, condition |-> NilCondition]

\* createBinding; now is the reading of time.Now(): the three readings of one call
\* are taken at the same tick
createBinding(role, member, ttl, now) ==
    [role |-> role,
     members |-> <<member>>,
     condition |->
        [nil |-> FALSE,
         title |-> gcpBindingTitlePrefix \o <<"_", ToString(now)>>,
         description |->
            <<"Temporary access granted by GTA tool at ", FormatRFC3339(now)>>,
         expression |->
            <<"request.time < timestamp('", FormatRFC3339(now + ttl), "')">>]]

\* the record of one remote call made by a handler
GetCall(ok, answer) == [op |-> "get", ok |-> ok, policy |-> answer]
SetCall(ok, policy) == [op |-> "set", ok |-> ok, policy |-> policy]

\* policy.Bindings = append(policy.Bindings[:i], policy.Bindings[i+1:]...)
RemoveAt(bindings, i) ==
    SubSeq(bindings, 1, i - 1) \o SubSeq(bindings, i + 1, Len(bindings))

\* newMembers: the members of a binding other than member, in order
NewMembers(members, member) == SelectSeq(members, LAMBDA m : m # member)

\* the branch on len(newMembers) == 0, kept without deleting the binding
RemoveMemberKeepEmpty(bindings, i, member) ==
    [bindings EXCEPT ![i].members = NewMembers(bindings[i].members, member)]

\* remove member from binding i; delete the binding when no member is left
RemoveMember(bindings, i, member) ==
    IF Len(NewMembers(bindings[i].members, member)) = 0
    THEN RemoveAt(bindings, i)
    ELSE [bindings EXCEPT ![i].members = NewMembers(bindings[i].members, member)]

----------------------------------------------------------------------------
\* GCPProvider.Grant

\* a GrantedRole recorded without the binding's title
GrantedRoleUntitled(role, bindingID) == [Role |-> role, BindingID |-> << >>]

\* one GrantedRole
GrantedRole(role, bindingID) == [Role |-> role, BindingID |-> bindingID]

\* the loop over gcpOpts.Roles with the policy fetched in the first iteration only
\* and kept for the later ones
RECURSIVE GrantLoopOneFetch(_, _, _, _, _, _, _, _)
GrantLoopOneFetch(roles, member, ttl, dry, outs, nows, k, st) ==
    IF k > Len(roles) THEN st
    ELSE
      LET formattedRole == formatRole(roles[k])
          first == st.calls = << >>
          policy == getIAMPolicy(IF first THEN st.remote ELSE st.calls[1].policy)
          binding == createBinding(formattedRole, member, ttl, nows[k])
          written == [policy EXCEPT !.bindings = Append(@, binding)]
          got == IF first THEN <<GetCall(TRUE, st.remote)>> ELSE << >>
          after ==
            IF dry THEN st
            ELSE IF outs[k] = "getfail" THEN
              [st EXCEPT !.calls = Append(@, GetCall(FALSE, st.remote)),
                         !.errors = Append(@, formattedRole)]
            ELSE IF outs[k] = "setfail" THEN
              [st EXCEPT !.calls = @ \o got \o <<SetCall(FALSE, written)>>,
                         !.errors = Append(@, formattedRole)]
            ELSE
              [st EXCEPT !.calls = @ \o got \o <<SetCall(TRUE, written)>>,
                         !.remote = written,
                         !.granted = Append(@, GrantedRole(formattedRole, binding.condition.title))]
      IN GrantLoopOneFetch(roles, member, ttl, dry, outs, nows, k + 1, after)

\* the loop over gcpOpts.Roles; outs[k] is what the remote does in iteration k
\* ("ok", "getfail", "setfail"), nows[k] the clock reading of iteration k
RECURSIVE GrantLoop(_, _, _, _, _, _, _, _)
GrantLoop(roles, member, ttl, dry, outs, nows, k, st) ==
    IF k > Len(roles) THEN st
    ELSE
      LET formattedRole == formatRole(roles[k])
          policy == getIAMPolicy(st.remote)
          binding == createBinding(formattedRole, member, ttl, nows[k])
          written == [policy EXCEPT !.bindings = Append(@, binding)]
          after ==
            IF dry THEN st
            ELSE IF outs[k] = "getfail" THEN
              [st EXCEPT !.calls = Append(@, GetCall(FALSE, st.remote)),
                         !.errors = Append(@, formattedRole)]
            ELSE IF outs[k] = "setfail" THEN
              [st EXCEPT !.calls = @ \o <<GetCall(TRUE, st.remote), SetCall(FALSE, written)>>,
                         !.errors = Append(@, formattedRole)]
            ELSE
              [st EXCEPT !.calls = @ \o <<GetCall(TRUE, st.remote), SetCall(TRUE, written)>>,
                         !.remote = written,
                         !.granted = Append(@, GrantedRole(formattedRole, binding.condition.title))]
      IN GrantLoop(roles, member, ttl, dry, outs, nows, k + 1, after)

\* the error Grant returns after the loop: TRUE is an error, FALSE is nil
GrantReturn(errors, granted) == Len(errors) > 0 /\ Len(granted) = 0

----------------------------------------------------------------------------
\* GCPProvider.Revoke

\* the test that selects the binding of a recorded grant, without the binding ID
RevokeMatchesRoleOnly(binding, grantedRole) == binding.role = grantedRole.Role

\* the test that selects the binding of a recorded grant
RevokeMatches(binding, grantedRole) ==
    /\ binding.role = grantedRole.Role
    /\ ~binding.condition.nil
    /\ binding.condition.title = grantedRole.BindingID

\* the first binding the inner loop stops at (break), 0 when there is none
FirstMatch(bindings, grantedRole) ==
    LET S == {i \in 1..Len(bindings) : RevokeMatches(bindings[i], grantedRole)}
    IN IF S = {} THEN 0 ELSE CHOOSE i \in S : \A j \in S : i <= j

\* the inner loop over policy.Bindings
RevokeBinding(bindings, grantedRole, member) ==
    IF FirstMatch(bindings, grantedRole) = 0 THEN bindings
    ELSE RemoveMember(bindings, FirstMatch(bindings, grantedRole), member)

\* the loop over p.grantedRoles, left at the first failure instead of continuing
RECURSIVE RevokeLoopStops(_, _, _, _, _, _)
RevokeLoopStops(granted, member, dry, outs, k, st) ==
    IF k > Len(granted) \/ st.errors # << >> THEN st
    ELSE
      LET policy == getIAMPolicy(st.remote)
          written == [policy EXCEPT !.bindings = RevokeBinding(@, granted[k], member)]
          after ==
            IF dry THEN st
            ELSE IF outs[k] = "getfail" THEN
              [st EXCEPT !.calls = Append(@, GetCall(FALSE, st.remote)),
                         !.errors = Append(@, granted[k].Role)]
            ELSE IF outs[k] = "setfail" THEN
              [st EXCEPT !.calls = @ \o <<GetCall(TRUE, st.remote), SetCall(FALSE, written)>>,
                         !.errors = Append(@, granted[k].Role)]
            ELSE
              [st EXCEPT !.calls = @ \o <<GetCall(TRUE, st.remote), SetCall(TRUE, written)>>,
                         !.remote = written]
      IN RevokeLoopStops(granted, member, dry, outs, k + 1, after)

\* the loop over p.grantedRoles
RECURSIVE RevokeLoop(_, _, _, _, _, _)
RevokeLoop(granted, member, dry, outs, k, st) ==
    IF k > Len(granted) THEN st
    ELSE
      LET policy == getIAMPolicy(st.remote)
          written == [policy EXCEPT !.bindings = RevokeBinding(@, granted[k], member)]
          after ==
            IF dry THEN st
            ELSE IF outs[k] = "getfail" THEN
              [st EXCEPT !.calls = Append(@, GetCall(FALSE, st.remote)),
                         !.errors = Append(@, granted[k].Role)]
            ELSE IF outs[k] = "setfail" THEN
              [st EXCEPT !.calls = @ \o <<GetCall(TRUE, st.remote), SetCall(FALSE, written)>>,
                         !.errors = Append(@, granted[k].Role)]
            ELSE
              [st EXCEPT !.calls = @ \o <<GetCall(TRUE, st.remote), SetCall(TRUE, written)>>,
                         !.remote = written]
      IN RevokeLoop(granted, member, dry, outs, k + 1, after)

\* the error Revoke returns after the loop: always nil
RevokeReturn(errors) == FALSE

----------------------------------------------------------------------------
\* GCPProvider.ListTemporaryBindings and CleanTemporaryBindings

\* a binding with our condition title prefix
IsTemporary(binding) ==
    ~binding.condition.nil /\ HasPrefix(binding.condition.title, gcpBindingTitlePrefix)

\* the member test of the scans; user is gcpOpts.User
MemberSelected(member, user) ==
    HasPrefix(member, <<"user:">>) /\ (user = << >> \/ member = formatMember(user))

\* the Expires value List logs
Expires(expression) ==
    TrimPrefix(TrimPrefix(expression, <<"request.time < timestamp('">>), <<"')">>)

\* what List logs for binding number i
ListEntries(binding, user) ==
    IF ~IsTemporary(binding) THEN << >>
    ELSE LET ms == SelectSeq(binding.members, LAMBDA m : MemberSelected(m, user))
         IN [k \in 1..Len(ms) |->
               [Role |-> binding.role, Member |-> ms[k],
                Expires |-> Expires(binding.condition.expression),
                ID |-> binding.condition.title]]

\* the "Found temporary binding" lines of List, in order
RECURSIVE ListScan(_, _, _)
ListScan(bindings, user, i) ==
    IF i > Len(bindings) THEN << >>
    ELSE ListEntries(bindings[i], user) \o ListScan(bindings, user, i + 1)

\* the temporaryBinding records Clean collects for binding number i
CleanEntries(binding, user, i) ==
    IF ~IsTemporary(binding) THEN << >>
    ELSE LET ms == SelectSeq(binding.members, LAMBDA m : MemberSelected(m, user))
         IN [k \in 1..Len(ms) |->
               [Role |-> binding.role, Member |-> ms[k],
                BindingID |-> binding.condition.title, Index |-> i]]

\* the collection loop of Clean
RECURSIVE CleanScan(_, _, _)
CleanScan(bindings, user, i) ==
    IF i > Len(bindings) THEN << >>
    ELSE CleanEntries(bindings[i], user, i) \o CleanScan(bindings, user, i + 1)

\* the order in which the removal loop visits the collected records, first to last
CleanOrderForward(n) == [k \in 1..n |-> k]

\* the order in which the removal loop visits the collected records: last to first
CleanOrder(n) == [k \in 1..n |-> n - k + 1]

\* the removal loop of Clean; indexing past the end of policy.Bindings panics
RECURSIVE CleanRemove(_, _, _, _)
CleanRemove(bindings, found, order, k) ==
    IF k > Len(order) THEN [panic |-> FALSE, bindings |-> bindings]
    ELSE IF found[order[k]].Index > Len(bindings)
         THEN [panic |-> TRUE, bindings |-> bindings]
         ELSE CleanRemove(
                RemoveMember(bindings, found[order[k]].Index, found[order[k]].Member),
                found, order, k + 1)

\* the dry-run return of Clean, never taken
CleanStopsNever(dry) == FALSE

\* Clean returns before the removal when the provider is in dry-run mode
CleanStops(dry) == dry

\* what Clean logs for one collected record
CleanLog(b) == [Role |-> b.Role, Member |-> b.Member, ID |-> b.BindingID]

----------------------------------------------------------------------------
\* Inputs

Alice == <<"alice">>
Bob == <<"bob">>
\* --user filters of list and clean
Filters == {<< >>, Bob}
\* role arguments, with and without the prefix
Viewer == <<"viewer">>
RolesViewer == <<"roles/", "viewer">>
RolesEditor == <<"roles/", "editor">>
RoleLists == {<<Viewer>>, <<RolesViewer, RolesEditor>>}
\* readings of the wall clock, in ticks; the wall clock is not monotonic
Times == {0, 1}
\* --ttl values, in ticks
TTLs == {TicksPerSecond + 1}
\* what the remote does with the calls of one loop iteration
Outcomes == {"ok", "getfail", "setfail"}
\* what the remote does in the n iterations of one call: it serves them all, it
\* fails them all in the same way, or it fails exactly one of them
OutcomeSeqs(n) ==
    {[k \in 1..n |-> o] : o \in Outcomes} \cup
    {[k \in 1..n |-> IF k = f THEN o ELSE "ok"] : f \in 1..n, o \in Outcomes}

\* bindings found in the project before this session starts
PlainBinding ==
    [role |-> RolesViewer,
     members |-> <<formatMember(Alice), <<"serviceAccount:", "sa">>>>,
     condition |-> NilCondition]
\* a conditional binding that does not carry the tool's title prefix
ForeignCondition ==
    [role |-> RolesViewer,
     members |-> <<formatMember(Alice)>>,
     condition |-> [nil |-> FALSE, title |-> <<"expires_soon">>,
                    description |-> << >>,
                    expression |-> <<"request.time < timestamp('", "9", "')">>]]
\* temporary bindings of other sessions of the tool
OtherTemporary == createBinding(RolesViewer, formatMember(Bob), TicksPerSecond, 0)
SharedTemporary ==
    [createBinding(RolesViewer, formatMember(Alice), TicksPerSecond, 1)
       EXCEPT !.members = <<formatMember(Alice), formatMember(Bob)>>]
\* the policies the project may hold when the session starts
InitialBindings ==
    {<< >>, <<PlainBinding>>, <<OtherTemporary, SharedTemporary, ForeignCondition>>}

\* the version the remote answers with: 1 unless the policy holds a condition
RemoteVersion(bindings) ==
    IF \E i \in 1..Len(bindings) : ~bindings[i].condition.nil THEN policyVersion ELSE 1

----------------------------------------------------------------------------
\* State

\* what a call leaves in ret
Ret(op, user, roles, ttl, now, err, panic, reported, calls, after) ==
    [op |-> op, user |-> user, roles |-> roles, ttl |-> ttl, now |-> now,
     err |-> err, panic |-> panic, reported |-> reported, calls |-> calls,
     after |-> after]

\* what List and Clean remember of the call they follow: List remembers a Grant
\* that returned nil, Clean a Clean that returned nil (wrote: it wrote the policy;
\* fresh: the policy it fetched first held no temporary binding); any other call
\* is not remembered
Forgotten ==
    [op |-> "other", user |-> << >>, roles |-> << >>, ttl |-> 0, now |-> 0,
     wrote |-> FALSE, fresh |-> FALSE]
Brief(r, op) ==
    IF r.op = op /\ ~r.err
    THEN [op |-> r.op, user |-> r.user, roles |-> r.roles, ttl |-> r.ttl, now |-> r.now,
          wrote |-> \E i \in 1..Len(r.calls) : r.calls[i].op = "set" /\ r.calls[i].ok,
          fresh |-> /\ Len(r.calls) > 0
                    /\ \A j \in 1..Len(r.calls[1].policy.bindings) :
                          ~IsTemporary(r.calls[1].policy.bindings[j])]
    ELSE Forgotten

NoCall == Ret("none", << >>, << >>, 0, 0, FALSE, FALSE, << >>, << >>, Forgotten)
NoOptions == [User |-> << >>, Roles |-> << >>, TTL |-> 0]

\* NewGCPProvider: no granted role; the remote holds some policy
Init ==
    /\ remote \in {[version |-> RemoteVersion(b), bindings |-> b] : b \in InitialBindings}
    /\ grantedRoles = << >>
    /\ dryRun \in BOOLEAN
    /\ ret = NoCall
    /\ opts = NoOptions
    /\ pc = "start"

----------------------------------------------------------------------------
\* Calls on the provider

\* Grant(opts): cur is what getCurrentUser answers (<< >>: it fails), now what
\* time.Now() reads in the first loop iteration, step the ticks between two iterations
GrantCall(roles, user, ttl, cur, outs, now, step) ==
    LET nows == [k \in 1..Len(roles) |-> now + (k - 1) * step]
        member == formatMember(IF user = << >> THEN cur ELSE user)
        st0 == [remote |-> remote, granted |-> grantedRoles, calls |-> << >>, errors |-> << >>]
        st == GrantLoop(roles, member, ttl, dryRun, outs, nows, 1, st0)
    IN /\ Len(grantedRoles) + Len(roles) <= MaxGranted
       /\ IF user = << >> /\ cur = << >>
          THEN /\ ret' = Ret("grant", user, roles, ttl, now, TRUE, FALSE, << >>, << >>,
                           Forgotten)
               /\ UNCHANGED <<remote, grantedRoles>>
          ELSE /\ remote' = st.remote
               /\ grantedRoles' = st.granted
               /\ ret' = Ret("grant", IF user = << >> THEN cur ELSE user, roles, ttl,
                             now, GrantReturn(st.errors, st.granted),
                             FALSE, << >>, st.calls, Forgotten)
       /\ UNCHANGED dryRun

\* Revoke(opts)
RevokeCall(user, outs) ==
    LET st0 == [remote |-> remote, calls |-> << >>, errors |-> << >>]
        st == RevokeLoop(grantedRoles, formatMember(user), dryRun, outs, 1, st0)
    IN /\ remote' = st.remote
       /\ ret' = Ret("revoke", user, << >>, 0, 0, RevokeReturn(st.errors), FALSE,
                     << >>, st.calls, Forgotten)
       /\ UNCHANGED <<grantedRoles, dryRun>>

\* the opts.User and getCurrentUser answers: a given user, the current user
\* resolved, the current user not resolved
UserCases == {<<Alice, << >>>>, <<<< >>, Alice>>, <<<< >>, << >>>>}

\* the inputs of one Grant call: step matters only between two iterations, and
\* nothing else is read when getCurrentUser fails
GrantInputs ==
    {in \in [roles : RoleLists, uc : UserCases, ttl : TTLs, now : Times, step : {0, 1}] :
        /\ Len(in.roles) = 1 => in.step = 0
        /\ in.now + (Len(in.roles) - 1) * in.step \in Times
        /\ (in.uc[1] = << >> /\ in.uc[2] = << >>) => (in.now = 0 /\ in.step = 0)}
GrantOutcomes(in) ==
    IF in.uc[1] = << >> /\ in.uc[2] = << >>
    THEN {[k \in 1..Len(in.roles) |-> "ok"]}
    ELSE OutcomeSeqs(Len(in.roles))

Grant ==
    \E in \in GrantInputs :
      \E outs \in GrantOutcomes(in) :
        /\ GrantCall(in.roles, in.uc[1], in.ttl, in.uc[2], outs, in.now, in.step)
        /\ UNCHANGED <<opts, pc>>

Revoke ==
    \E user \in {Alice} :
      \E outs \in OutcomeSeqs(Len(grantedRoles)) :
        /\ RevokeCall(user, outs)
        /\ UNCHANGED <<opts, pc>>

\* ListTemporaryBindings(opts)
List ==
    \E user \in Filters, getOK \in BOOLEAN :
      /\ ret' = IF getOK
                THEN Ret("list", user, << >>, 0, 0, FALSE, FALSE,
                         ListScan(getIAMPolicy(remote).bindings, user, 1),
                         <<GetCall(TRUE, remote)>>, Brief(ret, "grant"))
                ELSE Ret("list", user, << >>, 0, 0, TRUE, FALSE, << >>,
                         <<GetCall(FALSE, remote)>>, Brief(ret, "grant"))
      /\ UNCHANGED <<remote, grantedRoles, dryRun, opts, pc>>

\* CleanTemporaryBindings(opts)
Clean ==
    \E user \in Filters, out \in Outcomes :
      LET policy == getIAMPolicy(remote)
          found == CleanScan(policy.bindings, user, 1)
          logged == [k \in 1..Len(found) |-> CleanLog(found[k])]
          removed == CleanRemove(policy.bindings, found, CleanOrder(Len(found)), 1)
          written == [policy EXCEPT !.bindings = removed.bindings]
          got == <<GetCall(TRUE, remote)>>
      IN /\ IF out = "getfail" THEN
              /\ ret' = Ret("clean", user, << >>, 0, 0, TRUE, FALSE, << >>,
                            <<GetCall(FALSE, remote)>>, Brief(ret, "clean"))
              /\ UNCHANGED remote
            ELSE IF Len(found) = 0 \/ CleanStops(dryRun) THEN
              /\ ret' = Ret("clean", user, << >>, 0, 0, FALSE, FALSE, logged, got, Brief(ret, "clean"))
              /\ UNCHANGED remote
            ELSE IF removed.panic THEN
              /\ ret' = Ret("clean", user, << >>, 0, 0, TRUE, TRUE, logged, got, Brief(ret, "clean"))
              /\ UNCHANGED remote
            ELSE IF out = "setfail" THEN
              /\ ret' = Ret("clean", user, << >>, 0, 0, TRUE, FALSE, logged,
                            Append(got, SetCall(FALSE, written)), Brief(ret, "clean"))
              /\ UNCHANGED remote
            ELSE
              /\ ret' = Ret("clean", user, << >>, 0, 0, FALSE, FALSE, logged,
                            Append(got, SetCall(TRUE, written)), Brief(ret, "clean"))
              /\ remote' = written
         /\ UNCHANGED <<grantedRoles, dryRun, opts, pc>>

----------------------------------------------------------------------------
\* The grant command (runGrant)

\* the signals the process may receive, and those signal.Notify registers
Signals == {"SIGINT", "SIGTERM", "SIGHUP"}
Notified == {"SIGINT", "SIGTERM"}

\* runGrant up to the wait: the provider is built, Grant is called; Grant stores
\* the resolved user in opts.User
RunGrant ==
    \E in \in GrantInputs :
      \E outs \in GrantOutcomes(in) :
        /\ pc = "start"
        /\ GrantCall(in.roles, in.uc[1], in.ttl, in.uc[2], outs, in.now, in.step)
        /\ opts' = [User |-> ret'.user, Roles |-> in.roles, TTL |-> in.ttl]
        /\ pc' = IF ret'.err THEN "failed" ELSE IF dryRun THEN "dryrun" ELSE "waiting"

\* a signal arrives: one that is registered wakes the wait on sigChan, any other
\* one, or any one before signal.Notify, ends the process
Signal ==
    \E sig \in Signals :
      /\ pc \in {"start", "waiting", "revoking"}
      /\ pc' = IF sig \in Notified /\ pc = "waiting" THEN "revoking"
               ELSE IF sig \in Notified /\ pc = "revoking" THEN pc
               ELSE "killed"
      /\ UNCHANGED <<remote, grantedRoles, dryRun, ret, opts>>

\* runGrant after the wait: Revoke is called with the same opts
RunRevoke ==
    \E outs \in OutcomeSeqs(Len(grantedRoles)) :
      /\ pc = "revoking"
      /\ RevokeCall(opts.User, outs)
      /\ pc' = IF ret'.err THEN "failed" ELSE "revoked"
      /\ UNCHANGED opts

CmdNext == RunGrant \/ Signal \/ RunRevoke

CmdSpec == Init /\ [][CmdNext]_vars

----------------------------------------------------------------------------
\* The provider used as a library: any sequence of calls

Next == Grant \/ Revoke \/ List \/ Clean

Spec == Init /\ [][Next]_vars

----------------------------------------------------------------------------
\* Properties

\* the policy a set-policy call was given, and the one the get-policy call before
\* it answered with
Written(i) == ret.calls[i].policy
Fetched(i) == ret.calls[i - 1].policy
SetCalls == {i \in 1..Len(ret.calls) : ret.calls[i].op = "set"}
Served == {i \in SetCalls : ret.calls[i].ok}
Range(s) == {s[i] : i \in 1..Len(s)}
\* the k-th smallest element of a set of numbers
RECURSIVE Nth(_, _)
Nth(S, k) ==
    LET m == CHOOSE x \in S : \A y \in S : x <= y
    IN IF k = 1 THEN m ELSE Nth(S \ {m}, k - 1)

\* a binding whose role and condition title equal a GrantedRole of this session
Owned(b) ==
    \E k \in 1..Len(grantedRoles) :
        /\ b.role = grantedRoles[k].Role
        /\ ~b.condition.nil
        /\ b.condition.title = grantedRoles[k].BindingID
NotOwned(bindings) == SelectSeq(bindings, LAMBDA b : ~Owned(b))

\* C1: every policy Revoke writes holds the bindings that match no GrantedRole of
\* this session (other sessions' temporary bindings, bindings without the tool's
\* condition) exactly as the fetched policy held them, in the same order, and
\* holds no binding more than the fetched policy.
C1_RevokeOnlyOwnGrants ==
    ret.op = "revoke" =>
        \A i \in SetCalls :
            /\ NotOwned(Written(i).bindings) = NotOwned(Fetched(i).bindings)
            /\ Len(Written(i).bindings) <= Len(Fetched(i).bindings)

\* C1 witness: Revoke wrote a policy that differs from the fetched one while the
\* fetched one held a temporary binding of another session.
C1_Witness ==
    /\ ret.op = "revoke"
    /\ \E i \in Served :
        /\ Written(i).bindings # Fetched(i).bindings
        /\ \E j \in 1..Len(Fetched(i).bindings) :
              IsTemporary(Fetched(i).bindings[j]) /\ ~Owned(Fetched(i).bindings[j])

\* C2: a Clean that directly follows a non-dry-run Clean with the same member
\* filter that returned nil finds no match, writes nothing and leaves the remote
\* policy as it fetched it.
C2_CleanIdempotent ==
    (ret.op = "clean" /\ ~dryRun /\ ret.after.op = "clean" /\ ret.after.user = ret.user) =>
        /\ ret.reported = << >>
        /\ SetCalls = {}
        /\ ret.calls[1].policy = remote

\* C2 witness: the second Clean ran after a first one that removed something.
C2_Witness ==
    /\ ret.op = "clean" /\ ~dryRun /\ ~ret.err
    /\ ret.after.op = "clean" /\ ret.after.user = ret.user /\ ret.after.wrote

\* the (role, member, title) triples a Clean with filter user removes from a policy
Matches(policy, user) ==
    UNION {
        {[Role |-> policy.bindings[j].role, Member |-> m,
          ID |-> policy.bindings[j].condition.title] :
            m \in {x \in Range(policy.bindings[j].members) :
                      /\ x[1] = "user:"
                      /\ (user = << >> \/ x = <<"user:">> \o user)}} :
        j \in {k \in 1..Len(policy.bindings) :
                  /\ ~policy.bindings[k].condition.nil
                  /\ policy.bindings[k].condition.title[1] = "gta_temporary_access"}}

\* C3: a Clean in dry-run mode makes no set-policy call and leaves the remote
\* policy as it fetched it, and it reports exactly the matches of the policy.
C3_DryRunCleanWritesNothing ==
    (ret.op = "clean" /\ dryRun) =>
        /\ SetCalls = {}
        /\ ret.calls[1].policy = remote
        /\ ~ret.err =>
              /\ Range(ret.reported) = Matches(remote, ret.user)
              /\ Len(ret.reported) = Cardinality(Matches(remote, ret.user))

\* C3 witness: a dry-run Clean reported matches.
C3_Witness == ret.op = "clean" /\ dryRun /\ ~ret.err /\ ret.reported # << >>

\* the members Revoke or Clean may take from binding b of a fetched policy
Removable(b) ==
    IF ret.op = "revoke" THEN (IF Owned(b) THEN {formatMember(ret.user)} ELSE {})
    ELSE {m \in Range(b.members) :
            \E k \in 1..Len(ret.reported) :
                /\ ret.reported[k].Member = m
                /\ ret.reported[k].Role = b.role
                /\ ~b.condition.nil
                /\ ret.reported[k].ID = b.condition.title}

\* written is fetched with some members removed: the bindings at the positions S
\* are kept, in order, with their role and condition, with at least one member and
\* without any member that was not removable; the others lost all their members
Shrunk(fetched, written, S) ==
    /\ Cardinality(S) = Len(written)
    /\ \A k \in 1..Len(written) :
          LET b == fetched[Nth(S, k)]
          IN /\ written[k].role = b.role
             /\ written[k].condition = b.condition
             /\ written[k].members # << >>
             /\ written[k].members =
                   SelectSeq(b.members, LAMBDA m : m \in Range(written[k].members))
             /\ \/ written[k].members = b.members
                \/ /\ Range(b.members) \ Range(written[k].members) \subseteq Removable(b)
                   /\ Range(written[k].members) \cap Removable(b) = {}
    /\ \A j \in (1..Len(fetched)) \ S :
          /\ Removable(fetched[j]) # {}
          /\ Range(fetched[j].members) \subseteq Removable(fetched[j])

\* C4: every policy Revoke or Clean passes to set-policy is the fetched policy
\* with members removed: a binding that lost its last member is gone, a binding
\* that keeps a member is kept with its role and condition and without the
\* removed member, and no binding of the written policy has zero members.
C4_EmptyBindingDeleted ==
    ret.op \in {"revoke", "clean"} =>
        \A i \in SetCalls :
            \E S \in SUBSET (1..Len(Fetched(i).bindings)) :
                Shrunk(Fetched(i).bindings, Written(i).bindings, S)

\* C4 witness: one write deleted a binding that lost its last member and kept
\* another binding that lost one member of several.
C4_Witness ==
    /\ ret.op \in {"revoke", "clean"}
    /\ \E i \in Served :
        /\ Len(Written(i).bindings) < Len(Fetched(i).bindings)
        /\ \E k \in 1..Len(Written(i).bindings) :
              \A j \in 1..Len(Fetched(i).bindings) :
                  Written(i).bindings[k] # Fetched(i).bindings[j]

\* C5: no two GrantedRole entries of the session share a BindingID.
C5_BindingIDsDiffer ==
    \A i, j \in 1..Len(grantedRoles) :
        i # j => grantedRoles[i].BindingID # grantedRoles[j].BindingID

\* C6: a Grant call returns nil when at least one role of that call was granted,
\* and an error when it tried roles and every one of them failed.
C6_GrantErrorIffAllFailed ==
    ret.op = "grant" =>
        /\ Served # {} => ~ret.err
        /\ (~dryRun /\ Len(ret.roles) > 0 /\ Served = {}) => ret.err

\* C7: from a policy without temporary bindings, a successful Grant of the single
\* role "viewer" followed by List reports exactly one binding: role roles/viewer,
\* the granted member, the recorded BindingID, expiration grant time plus ttl.
C7_ListAfterGrant ==
    (/\ ret.op = "list" /\ ~ret.err /\ ret.user \in {<< >>, ret.after.user}
     /\ ret.after.op = "grant" /\ ret.after.roles = <<<<"viewer">>>>
     /\ ret.after.wrote /\ ret.after.fresh) =>
        ret.reported =
            <<[Role |-> <<"roles/", "viewer">>,
               Member |-> <<"user:">> \o ret.after.user,
               Expires |-> <<ToString((ret.after.now + ret.after.ttl) \div TicksPerSecond)>>,
               ID |-> grantedRoles[Len(grantedRoles)].BindingID]>>

\* C8: when the grant command has ended and the session recorded a grant, the
\* command ended by returning from Revoke.
C8_RevokedOnEveryExit ==
    (pc \in {"failed", "dryrun", "revoked", "killed"} /\ grantedRoles # << >>) =>
        (pc = "revoked" /\ ret.op = "revoke")

\* C9: every policy passed to set-policy has version 3.
C9_WrittenVersion == \A i \in SetCalls : Written(i).version = 3

\* C9 witness: a policy was written after the remote answered with another version.
C9_Witness == \E i \in Served : Fetched(i).version # 3

\* C10: Revoke returns nil when at least one recorded grant was revoked, and an
\* error when the session has recorded grants and every revocation failed.
C10_RevokeErrorIffAllFailed ==
    ret.op = "revoke" =>
        /\ Served # {} => ~ret.err
        /\ (~dryRun /\ grantedRoles # << >> /\ Served = {}) => ret.err

\* a member the filter user selects, and a binding that carries the marker prefix
Matched(m, user) == m[1] = "user:" /\ (user = << >> \/ m = <<"user:">> \o user)
Marked(b) == ~b.condition.nil /\ b.condition.title[1] = "gta_temporary_access"

\* bindings without the matched members of the marked bindings; a marked binding
\* left without members is gone
WithoutMatched(bindings, user) ==
    LET rest(b) == IF Marked(b)
                   THEN [b EXCEPT !.members = SelectSeq(@, LAMBDA m : ~Matched(m, user))]
                   ELSE b
        all == [j \in 1..Len(bindings) |-> rest(bindings[j])]
    IN SelectSeq(all, LAMBDA b : ~(Marked(b) /\ b.members = << >>))

\* every removal step from step k on finds, at the recorded position, the binding
\* its match was recorded for
RECURSIVE StepsOnRecorded(_, _, _, _)
StepsOnRecorded(bindings, found, order, k) ==
    IF k > Len(order) THEN TRUE
    ELSE LET f == found[order[k]]
         IN /\ f.Index <= Len(bindings)
            /\ bindings[f.Index].role = f.Role
            /\ ~bindings[f.Index].condition.nil
            /\ bindings[f.Index].condition.title = f.BindingID
            /\ f.Member \in Range(bindings[f.Index].members)
            /\ StepsOnRecorded(RemoveMember(bindings, f.Index, f.Member), found, order, k + 1)

\* C11: a non-dry-run Clean that returned nil leaves as the remote policy the
\* fetched one without the matched members of the marked bindings, every other
\* binding and member unchanged and in order; what it wrote is that policy, and
\* every removal step acted on the binding its match was recorded for.
C11_CleanRemovesExactlyMatches ==
    (ret.op = "clean" /\ ~dryRun /\ ~ret.err) =>
        /\ remote.bindings = WithoutMatched(ret.calls[1].policy.bindings, ret.user)
        /\ \A i \in SetCalls :
              /\ Written(i).bindings = WithoutMatched(Fetched(i).bindings, ret.user)
              /\ StepsOnRecorded(
                    Fetched(i).bindings,
                    CleanScan(Fetched(i).bindings, ret.user, 1),
                    CleanOrder(Len(CleanScan(Fetched(i).bindings, ret.user, 1))), 1)

\* C11 witness: a Clean with a member filter wrote a policy after matching in two
\* bindings, deleting one and keeping the other with its non-matching member.
C11_Witness ==
    /\ ret.op = "clean" /\ ~dryRun /\ ~ret.err /\ ret.user # << >>
    /\ \E i \in Served :
          /\ Len(ret.reported) >= 2
          /\ Len(Written(i).bindings) < Len(Fetched(i).bindings)
          /\ \E k \in 1..Len(Written(i).bindings) :
                Marked(Written(i).bindings[k])

\* the get-policy calls of the last operation
GetCalls == {i \in 1..Len(ret.calls) : ret.calls[i].op = "get"}

\* bindings after member is taken from the first binding with the role and the
\* title of the recorded grant g; the binding is gone when it held nobody else
RevokedFrom(bindings, g, member) ==
    LET S == {j \in 1..Len(bindings) :
                /\ bindings[j].role = g.Role
                /\ ~bindings[j].condition.nil
                /\ bindings[j].condition.title = g.BindingID}
        j == CHOOSE x \in S : \A y \in S : x <= y
        left == SelectSeq(bindings[j].members, LAMBDA m : m # member)
    IN IF S = {} THEN bindings
       ELSE IF left = << >>
            THEN [x \in 1..(Len(bindings) - 1) |->
                    IF x < j THEN bindings[x] ELSE bindings[x + 1]]
            ELSE [bindings EXCEPT ![j].members = left]

\* C12: a non-dry-run Revoke makes one get-policy call per recorded grant, in
\* recording order: a served get is directly followed by the write of the fetched
\* policy with the member taken from that grant's binding, a failed get or a
\* failed write is followed by the attempt of the next grant, and no grant is
\* attempted twice.
C12_RevokeAttemptsEveryGrant ==
    (ret.op = "revoke" /\ ~dryRun) =>
        /\ Cardinality(GetCalls) = Len(grantedRoles)
        /\ \A i \in SetCalls : i > 1 /\ ret.calls[i - 1].op = "get" /\ ret.calls[i - 1].ok
        /\ \A k \in 1..Len(grantedRoles) :
              LET i == Nth(GetCalls, k)
              IN IF ret.calls[i].ok
                 THEN /\ i < Len(ret.calls)
                      /\ ret.calls[i + 1].op = "set"
                      /\ ret.calls[i + 1].policy.bindings =
                            RevokedFrom(ret.calls[i].policy.bindings, grantedRoles[k],
                                        <<"user:">> \o ret.user)
                 ELSE i = Len(ret.calls) \/ ret.calls[i + 1].op = "get"

\* C12 witness: the revocation of the first recorded grant failed and the
\* revocation of a later one was written and changed the policy.
C12_Witness ==
    /\ ret.op = "revoke" /\ ~dryRun /\ Len(grantedRoles) >= 2
    /\ \/ ~ret.calls[1].ok
       \/ (Len(ret.calls) >= 2 /\ ret.calls[2].op = "set" /\ ~ret.calls[2].ok)
    /\ \E i \in Served : Written(i).bindings # Fetched(i).bindings

\* the policy the remote holds when call i of the last operation is made: the one
\* of the latest served write before it, or the one the first call was answered with
HeldAt(i) ==
    LET W == {j \in Served : j < i}
    IN IF W = {} THEN ret.calls[1].policy
       ELSE ret.calls[CHOOSE j \in W : \A x \in W : x <= j].policy

\* written is derived from fetched alone, in the way of the last operation
DerivedFrom(fetched, written) ==
    /\ written.version = 3
    /\ CASE ret.op = "grant" ->
              /\ Len(written.bindings) = Len(fetched.bindings) + 1
              /\ SubSeq(written.bindings, 1, Len(fetched.bindings)) = fetched.bindings
         [] ret.op = "revoke" ->
              \E k \in 1..Len(grantedRoles) :
                  written.bindings =
                      RevokedFrom(fetched.bindings, grantedRoles[k], <<"user:">> \o ret.user)
         [] ret.op = "clean" ->
              written.bindings = WithoutMatched(fetched.bindings, ret.user)
         [] OTHER -> FALSE

\* the get-policy calls the last operation has to make
FetchesDue ==
    CASE ret.op = "grant" -> IF dryRun \/ ret.user = << >> THEN 0 ELSE Len(ret.roles)
      [] ret.op = "revoke" -> IF dryRun THEN 0 ELSE Len(grantedRoles)
      [] ret.op \in {"list", "clean"} -> 1
      [] OTHER -> 0

\* C13: in every operation each set-policy call directly follows a served
\* get-policy call of the same operation and writes a policy derived from that
\* fetch alone; each get-policy call is answered with the policy the remote holds
\* at that moment, so no earlier fetch is reused; Grant and Revoke fetch once per
\* iteration and write at once, Clean and List fetch once per call; the remote
\* ends with the last served write.
C13_FetchBeforeEveryWrite ==
    /\ Cardinality(GetCalls) = FetchesDue
    /\ \A i \in SetCalls :
          /\ i > 1 /\ ret.calls[i - 1].op = "get" /\ ret.calls[i - 1].ok
          /\ DerivedFrom(Fetched(i), Written(i))
    /\ \A i \in GetCalls :
          /\ ret.calls[i].policy = HeldAt(i)
          /\ (ret.calls[i].ok /\ ret.op \in {"grant", "revoke"}) =>
                (i < Len(ret.calls) /\ ret.calls[i + 1].op = "set")
    /\ ret.calls # << >> => remote = HeldAt(Len(ret.calls) + 1)

\* C13 witness: a Grant of two roles wrote twice, the second fetch answered with
\* the policy of the first write.
C13_Witness ==
    /\ ret.op = "grant" /\ Len(ret.roles) = 2
    /\ Len(ret.calls) = 4 /\ Served = {2, 4}
    /\ ret.calls[3].policy = ret.calls[2].policy
    /\ ret.calls[3].policy # ret.calls[1].policy

\* the role name with the roles/ prefix
Normalized(role) == IF role[1] = "roles/" THEN role ELSE <<"roles/">> \o role

\* the entries a Grant with result r has to record: one per served write, in
\* order, with the normalized role of the iteration that wrote (a write is the
\* last call of its iteration, iteration k made the k-th get) and the title of
\* the binding the write appended
Recorded(r) ==
    LET W == {i \in 1..Len(r.calls) : r.calls[i].op = "set" /\ r.calls[i].ok}
        iter(i) == Cardinality({j \in 1..i : r.calls[j].op = "get"})
        last(i) == r.calls[i].policy.bindings[Len(r.calls[i].policy.bindings)]
    IN [n \in 1..Cardinality(W) |->
          [Role |-> Normalized(r.roles[iter(Nth(W, n))]),
           BindingID |-> last(Nth(W, n)).condition.title]]

\* C14: a Grant appends to grantedRoles exactly one entry per served set-policy
\* call, in order, with the normalized role and the title of the written binding
\* (so nothing for a failed or a dry-run role); every other call leaves
\* grantedRoles as it is.
C14_GrantedRolesBookkeeping ==
    [][IF ret'.op = "grant"
       THEN /\ grantedRoles' = grantedRoles \o Recorded(ret')
            /\ \A n \in 1..Len(Recorded(ret')) :
                  \E i \in 1..Len(ret'.calls) :
                      LET b == ret'.calls[i].policy.bindings[Len(ret'.calls[i].policy.bindings)]
                      IN /\ ret'.calls[i].op = "set" /\ ret'.calls[i].ok
                         /\ b.role = Recorded(ret')[n].Role
                         /\ b.condition.title = Recorded(ret')[n].BindingID
       ELSE grantedRoles' = grantedRoles]_vars

\* C14 witness: a Grant of two roles of which one failed and one was written has
\* recorded the written one.
C14_Witness ==
    /\ ret.op = "grant" /\ Len(ret.roles) = 2 /\ ~dryRun
    /\ Cardinality(Served) = 1 /\ Cardinality(GetCalls) = 2
    /\ Len(grantedRoles) = 1

\* C15: every policy Grant passes to set-policy holds the bindings of the policy
\* fetched in that iteration, unchanged and in order, followed by one new binding
\* with the normalized role of the iteration, the formatted member as its only
\* member, and a condition whose title carries the marker prefix.
C15_GrantAppendsOnly ==
    ret.op = "grant" =>
        \A i \in SetCalls :
            LET n == Len(Fetched(i).bindings)
                k == Cardinality({j \in GetCalls : j < i})
            IN /\ Len(Written(i).bindings) = n + 1
               /\ SubSeq(Written(i).bindings, 1, n) = Fetched(i).bindings
               /\ Written(i).bindings[n + 1].role = Normalized(ret.roles[k])
               /\ Written(i).bindings[n + 1].members = <<<<"user:">> \o ret.user>>
               /\ ~Written(i).bindings[n + 1].condition.nil
               /\ Written(i).bindings[n + 1].condition.title[1] = "gta_temporary_access"

\* C15 witness: a Grant wrote a policy after fetching one that held bindings, and
\* the remote holds what it wrote.
C15_Witness ==
    /\ ret.op = "grant"
    /\ \E i \in Served :
          /\ Len(Fetched(i).bindings) >= 2
          /\ i = Len(ret.calls) /\ remote = Written(i)

====
